---- MODULE Spec2Model ----
(***************************************************************************)
(* A model of pyro/infer/util.py: the MultiFrameTensor container (sums of  *)
(* tensors keyed by sets of iarange frames) and the Dice operator (DiCE    *)
(* factors per ordinal, their memoization, and compute_expectation).       *)
(*                                                                         *)
(* Tensors are records [shape, data]: shape is the sequence of extents and *)
(* data maps every index tuple (0-based components) to an integer entry.   *)
(* Log-domain numbers are integers in units of ln 2, so exp(x) is 2^x, and *)
(* probabilities are exact rationals [n, d].                               *)
(***************************************************************************)
EXTENDS Integers, Sequences, FiniteSets, TLC

VARIABLES
    store,              \* MultiFrameTensor: the dict, in insertion order
    added,              \* history: the (frames, value) items add() accepted
    mret,               \* history: the last MultiFrameTensor call and its result
    trace,              \* guide_trace.nodes, in trace order
    log_denom,          \* Dice.log_denom
    log_probs,          \* Dice.log_probs, in insertion order
    log_factors_cache,  \* Dice._log_factors_cache
    prob_cache,         \* Dice._prob_cache
    allocs,             \* number of objects created so far for each cache key
    dret                \* history: the last Dice call and its result

vars == <<store, added, mret, trace, log_denom, log_probs,
          log_factors_cache, prob_cache, allocs, dret>>

mftVars == <<store, added, mret>>
diceVars == <<trace, log_denom, log_probs, log_factors_cache, prob_cache, allocs, dret>>

----------------------------------------------------------------------------
(* Bounds *)

MaxAdds == 2
MaxSites == 2

----------------------------------------------------------------------------
(* Tensors (torch.Tensor as far as this file uses it) *)

RECURSIVE Indices(_)
Indices(shape) ==
    IF shape = <<>> THEN {<<>>}
    ELSE {<<i>> \o rest : i \in 0..(Head(shape) - 1), rest \in Indices(Tail(shape))}

RECURSIVE LinearIndex(_, _)
LinearIndex(idx, shape) ==
    IF idx = <<>> THEN 0
    ELSE LinearIndex(SubSeq(idx, 1, Len(idx) - 1), SubSeq(shape, 1, Len(shape) - 1))
           * shape[Len(shape)] + idx[Len(idx)]

MkTensor(shape, base) ==
    [shape |-> shape,
     data  |-> [idx \in Indices(shape) |-> base + LinearIndex(idx, shape)]]

Rank(t) == Len(t.shape)

RECURSIVE SumOver(_, _)
SumOver(f, S) ==
    IF S = {} THEN 0
    ELSE LET x == CHOOSE y \in S : TRUE IN f[x] + SumOver(f, S \ {x})

\* position (1-based) in a shape of rank r that a negative dim addresses
AxisPos(r, dim) == r + dim + 1

\* value.sum(dim, True): a new tensor, the axis kept with extent one
TensorSumKeepdim(t, dim) ==
    LET p == AxisPos(Rank(t), dim)
        newShape == [t.shape EXCEPT ![p] = 1]
    IN [shape |-> newShape,
        data  |-> [idx \in Indices(newShape) |->
                     SumOver([j \in 0..(t.shape[p] - 1) |-> t.data[[idx EXCEPT ![p] = j]]],
                             0..(t.shape[p] - 1))]]

\* value.squeeze(0) on a tensor whose leading extent is one
Squeeze0(t) ==
    [shape |-> Tail(t.shape),
     data  |-> [idx \in Indices(Tail(t.shape)) |-> t.data[<<0>> \o idx]]]

\* while value.shape and value.shape[0] == 1: squeeze(0)
RECURSIVE StripLeadingOnes(_)
StripLeadingOnes(t) ==
    IF t.shape # <<>> /\ t.shape[1] = 1 THEN StripLeadingOnes(Squeeze0(t)) ELSE t

Max2(a, b) == IF a >= b THEN a ELSE b

\* shapes aligned at the trailing axis; extents must agree or be one
Broadcastable(s1, s2) ==
    \A k \in 1..(IF Len(s1) <= Len(s2) THEN Len(s1) ELSE Len(s2)) :
        LET a == s1[Len(s1) - k + 1]
            b == s2[Len(s2) - k + 1]
        IN a = b \/ a = 1 \/ b = 1

BroadcastShape(s1, s2) ==
    LET r == Max2(Len(s1), Len(s2))
        ext(s, p) == IF p > r - Len(s) THEN s[p - (r - Len(s))] ELSE 1
    IN [p \in 1..r |-> IF ext(s1, p) = 1 THEN ext(s2, p) ELSE ext(s1, p)]

\* the index of the operand's entry that a result index reads
Project(idx, shape) ==
    LET off == Len(idx) - Len(shape)
    IN [p \in 1..Len(shape) |-> IF shape[p] = 1 THEN 0 ELSE idx[p + off]]

\* a + b with broadcasting (operands Broadcastable)
TensorAdd(a, b) ==
    LET s == BroadcastShape(a.shape, b.shape)
    IN [shape |-> s,
        data  |-> [idx \in Indices(s) |->
                     a.data[Project(idx, a.shape)] + b.data[Project(idx, b.shape)]]]

\* tensor.sum(): all entries
TensorSumAll(t) == SumOver(t.data, Indices(t.shape))

----------------------------------------------------------------------------
(* MultiFrameTensor *)

\* CondIndepStackFrame: an iarange frame is vectorized and has a negative dim;
\* an irange frame is not vectorized (its dim is never read)
FrameI == [name |-> "i", dim |-> -1, vectorized |-> TRUE]
FrameJ == [name |-> "j", dim |-> -2, vectorized |-> TRUE]
FrameS == [name |-> "s", dim |-> 0, vectorized |-> FALSE]

FramePool == {FrameI, FrameJ, FrameS}

\* cond_indep_stacks (only membership and iteration are used)
Stacks == SUBSET FramePool

Shapes == {<<>>, <<2>>, <<3>>, <<1, 2>>, <<2, 2>>}

TensorPool == {MkTensor(s, 1) : s \in Shapes}

NoTensor == MkTensor(<<>>, 0)
None == [kind |-> "None", val |-> NoTensor]
Some(t) == [kind |-> "Tensor", val |-> t]

\* position of the key in the dict, 0 when absent
KeyPos(self, frames) ==
    IF \E p \in 1..Len(self) : self[p].frames = frames
    THEN CHOOSE p \in 1..Len(self) : self[p].frames = frames
    ELSE 0

\* add(*items): the loop from the first remaining item on; done collects the
\* items stored so far
RECURSIVE add(_, _, _)
add(self, items, done) ==
    IF items = <<>> THEN [store |-> self, raised |-> "none", done |-> done]
    ELSE LET cond_indep_stack == Head(items).stack
             value == Head(items).value
             frames == {f \in cond_indep_stack : f.vectorized}
             p == KeyPos(self, frames)
         IN IF ~(\A f \in frames : f.dim < 0 /\ -Len(value.shape) <= f.dim)
            THEN [store |-> self, raised |-> "AssertionError", done |-> done]
            ELSE IF p # 0
            THEN IF ~Broadcastable(self[p].value.shape, value.shape)
                 THEN [store |-> self, raised |-> "RuntimeError", done |-> done]
                 ELSE add([self EXCEPT ![p].value = TensorAdd(self[p].value, value)],
                          Tail(items),
                          Append(done, [frames |-> frames, value |-> value]))
            ELSE add(Append(self, [frames |-> frames, value |-> value]),
                     Tail(items),
                     Append(done, [frames |-> frames, value |-> value]))

\* ReduceFrames without the test "f not in target_frames"
RECURSIVE ReduceFrames_IgnoreTarget(_, _, _, _)
ReduceFrames_IgnoreTarget(value, rebound, frames, target_frames) ==
    IF frames = {} THEN [raised |-> "none", value |-> value, rebound |-> rebound]
    ELSE LET f == CHOOSE g \in frames : TRUE
             rest == frames \ {f}
         IN IF -f.dim > Rank(value)
            THEN [raised |-> "IndexError", value |-> value, rebound |-> rebound]
            ELSE IF value.shape[AxisPos(Rank(value), f.dim)] # 1
            THEN ReduceFrames_IgnoreTarget(TensorSumKeepdim(value, f.dim), TRUE, rest,
                                           target_frames)
            ELSE ReduceFrames_IgnoreTarget(value, rebound, rest, target_frames)

\* for f in frames: if f not in target_frames and value.shape[f.dim] != 1: ...
\* rebound tells whether value was rebound to a new tensor by value.sum
RECURSIVE ReduceFrames(_, _, _, _)
ReduceFrames(value, rebound, frames, target_frames) ==
    IF frames = {} THEN [raised |-> "none", value |-> value, rebound |-> rebound]
    ELSE LET f == CHOOSE g \in frames : TRUE
             rest == frames \ {f}
         IN IF f \in target_frames
            THEN ReduceFrames(value, rebound, rest, target_frames)
            ELSE IF -f.dim > Rank(value)
            THEN [raised |-> "IndexError", value |-> value, rebound |-> rebound]
            ELSE IF value.shape[AxisPos(Rank(value), f.dim)] # 1
            THEN ReduceFrames(TensorSumKeepdim(value, f.dim), TRUE, rest, target_frames)
            ELSE ReduceFrames(value, rebound, rest, target_frames)

\* value.squeeze_(0) acts in place: on the stored tensor unless value was rebound
SqueezeInPlace(self, p, rebound, value) ==
    IF rebound THEN self ELSE [self EXCEPT ![p].value = StripLeadingOnes(value)]

\* the loop of sum_to from entry p on
RECURSIVE sum_to_loop(_, _, _, _)
sum_to_loop(self, p, total, target_frames) ==
    IF p > Len(self) THEN [store |-> self, raised |-> "none", result |-> total]
    ELSE LET r == ReduceFrames(self[p].value, FALSE, self[p].frames, target_frames)
             value == StripLeadingOnes(r.value)
             self2 == SqueezeInPlace(self, p, r.rebound, r.value)
         IN IF r.raised # "none"
            THEN [store |-> self, raised |-> r.raised, result |-> None]
            ELSE IF total.kind = "None"
            THEN sum_to_loop(self2, p + 1, Some(value), target_frames)
            ELSE IF ~Broadcastable(total.val.shape, value.shape)
            THEN [store |-> self2, raised |-> "RuntimeError", result |-> None]
            ELSE sum_to_loop(self2, p + 1, Some(TensorAdd(total.val, value)), target_frames)

sum_to(self, target_frames) == sum_to_loop(self, 1, None, target_frames)

----------------------------------------------------------------------------
(* Numbers: exact rationals; log-domain values in units of ln 2 *)

RECURSIVE GCD(_, _)
GCD(a, b) == IF b = 0 THEN a ELSE GCD(b, a % b)

Rat(n, d) == LET g == GCD(n, d) IN [n |-> n \div g, d |-> d \div g]
RatOne == [n |-> 1, d |-> 1]
RatZero == [n |-> 0, d |-> 1]
RatMul(x, y) == Rat(x.n * y.n, x.d * y.d)
RatAdd(x, y) == Rat(x.n * y.d + y.n * x.d, x.d * y.d)
RatInt(k) == [n |-> k, d |-> 1]

RECURSIVE Pow2(_)
Pow2(k) == IF k = 0 THEN 1 ELSE 2 * Pow2(k - 1)

\* math.log of a power of two
RECURSIVE Log(_)
Log(k) == IF k = 1 THEN 0 ELSE 1 + Log(k \div 2)

\* a finite log-domain value, and log(0)
Fin(v) == [fin |-> TRUE, v |-> v]
NegInf == [fin |-> FALSE, v |-> 0]

\* torch_exp
torch_exp(x) ==
    IF ~x.fin THEN RatZero
    ELSE IF x.v >= 0 THEN RatInt(Pow2(x.v)) ELSE Rat(1, Pow2(-x.v))

----------------------------------------------------------------------------
(* Dice *)

OrdinalFrames == {"a", "b"}
Ordinals == SUBSET OrdinalFrames

\* score_parts.score_function: the number 0 for a reparameterized site,
\* otherwise a tensor holding a log-probability
ZeroScore == [number |-> TRUE, val |-> Fin(0)]
Score(x) == [number |-> FALSE, val |-> x]

is_identically_zero(x) == x.number /\ x.val = Fin(0)

Site(type, score, enumerate, total, ordinal) ==
    [type |-> type, score |-> score, enumerate |-> enumerate,
     enum_total |-> total, ordinal |-> ordinal]

\* the site kinds a guide trace is drawn from; ordinal is ordering[name]
SitePool ==
    { Site("param", ZeroScore, "none", 1, {}),
      Site("sample", ZeroScore, "none", 1, {"a"}),
      Site("sample", ZeroScore, "sequential", 2, {}),
      Site("sample", Score(Fin(-1)), "none", 1, {}),
      Site("sample", Score(Fin(-2)), "none", 1, {"a"}),
      Site("sample", Score(Fin(-1)), "parallel", 2, {}),
      Site("sample", Score(NegInf), "parallel", 1, {"a"}),
      Site("sample", Score(Fin(-1)), "sequential", 2, {"a"}),
      Site("sample", Score(Fin(-1)), "sequential", 2, {"b"}),
      Site("sample", Score(Fin(-2)), "sequential", 1, {"a", "b"}) }

Traces == UNION {[1..n -> SitePool] : n \in 0..MaxSites}

\* the identity of a log-factor object: the tensor made for a site, or the
\* float -log_denom made when the list for an ordinal was built
SiteTerm(i, val) == [src |-> "site", site |-> i, ordinal |-> {}, gen |-> 0, val |-> val]
DenomTerm(target, gen, val) ==
    [src |-> "denom", site |-> 0, ordinal |-> target, gen |-> gen, val |-> val]

\* log_denom[ordinal], a defaultdict(float)
DenomGet(ld, ordinal) == IF ordinal \in DOMAIN ld THEN ld[ordinal] ELSE 0

DictSet(d, k, v) == [x \in (DOMAIN d) \cup {k} |-> IF x = k THEN v ELSE d[x]]

\* position of the ordinal in log_probs, 0 when absent
BucketPos(lp, ordinal) ==
    IF \E p \in 1..Len(lp) : lp[p].ordinal = ordinal
    THEN CHOOSE p \in 1..Len(lp) : lp[p].ordinal = ordinal
    ELSE 0

\* log_probs[ordinal].append(term)
BucketAppend(lp, ordinal, term) ==
    LET p == BucketPos(lp, ordinal)
    IN IF p = 0 THEN Append(lp, [ordinal |-> ordinal, terms |-> <<term>>])
       ELSE [lp EXCEPT ![p].terms = Append(@, term)]

\* log_prob - log_prob.detach(), for the finite log_prob of a sampled value
Detached(val) == Fin(val.v - val.v)

\* Dice_init_loop adding log(_enum_total) for every enumerated site, not only
\* for the sequentially enumerated ones
RECURSIVE Dice_init_loop_AnyEnum(_, _, _, _)
Dice_init_loop_AnyEnum(guide_trace, i, ld, lp) ==
    IF i > Len(guide_trace) THEN [log_denom |-> ld, log_probs |-> lp]
    ELSE LET site == guide_trace[i]
             log_prob == site.score
             ordinal == site.ordinal
         IN IF site.type # "sample"
            THEN Dice_init_loop_AnyEnum(guide_trace, i + 1, ld, lp)
            ELSE IF is_identically_zero(log_prob)
            THEN Dice_init_loop_AnyEnum(guide_trace, i + 1, ld, lp)
            ELSE IF site.enumerate # "none"
            THEN Dice_init_loop_AnyEnum(guide_trace, i + 1,
                     DictSet(ld, ordinal, DenomGet(ld, ordinal) + Log(site.enum_total)),
                     BucketAppend(lp, ordinal, SiteTerm(i, log_prob.val)))
            ELSE Dice_init_loop_AnyEnum(guide_trace, i + 1, ld,
                     BucketAppend(lp, ordinal, SiteTerm(i, Detached(log_prob.val))))

\* the loop of Dice.__init__ from site i on
RECURSIVE Dice_init_loop(_, _, _, _)
Dice_init_loop(guide_trace, i, ld, lp) ==
    IF i > Len(guide_trace) THEN [log_denom |-> ld, log_probs |-> lp]
    ELSE LET site == guide_trace[i]
             log_prob == site.score
             ordinal == site.ordinal
         IN IF site.type # "sample"
            THEN Dice_init_loop(guide_trace, i + 1, ld, lp)
            ELSE IF is_identically_zero(log_prob)
            THEN Dice_init_loop(guide_trace, i + 1, ld, lp)
            ELSE IF site.enumerate # "none"
            THEN Dice_init_loop(guide_trace, i + 1,
                     IF site.enumerate = "sequential"
                     THEN DictSet(ld, ordinal, DenomGet(ld, ordinal) + Log(site.enum_total))
                     ELSE ld,
                     BucketAppend(lp, ordinal, SiteTerm(i, log_prob.val)))
            ELSE Dice_init_loop(guide_trace, i + 1, ld,
                     BucketAppend(lp, ordinal, SiteTerm(i, Detached(log_prob.val))))

Dice_init(guide_trace) == Dice_init_loop(guide_trace, 1, <<>>, <<>>)

\* DenomNotUpstream with the test "not ordinal <= target_ordinal" lacking its not
RECURSIVE DenomNotUpstream_Upstream(_, _, _)
DenomNotUpstream_Upstream(ld, keys, target_ordinal) ==
    IF keys = {} THEN 0
    ELSE LET ordinal == CHOOSE o \in keys : TRUE
         IN (IF ordinal \subseteq target_ordinal THEN ld[ordinal] ELSE 0)
            + DenomNotUpstream_Upstream(ld, keys \ {ordinal}, target_ordinal)

\* for ordinal, term in self.log_denom.items(): if not ordinal <= target_ordinal
RECURSIVE DenomNotUpstream(_, _, _)
DenomNotUpstream(ld, keys, target_ordinal) ==
    IF keys = {} THEN 0
    ELSE LET ordinal == CHOOSE o \in keys : TRUE
         IN (IF ~(ordinal \subseteq target_ordinal) THEN ld[ordinal] ELSE 0)
            + DenomNotUpstream(ld, keys \ {ordinal}, target_ordinal)

\* UpstreamTerms with "ordinal == target_ordinal" for "ordinal <= target_ordinal"
RECURSIVE UpstreamTerms_OwnOnly(_, _, _)
UpstreamTerms_OwnOnly(lp, p, target_ordinal) ==
    IF p > Len(lp) THEN <<>>
    ELSE (IF lp[p].ordinal = target_ordinal THEN lp[p].terms ELSE <<>>)
         \o UpstreamTerms_OwnOnly(lp, p + 1, target_ordinal)

\* for ordinal, term in self.log_probs.items(): if ordinal <= target_ordinal
RECURSIVE UpstreamTerms(_, _, _)
UpstreamTerms(lp, p, target_ordinal) ==
    IF p > Len(lp) THEN <<>>
    ELSE (IF lp[p].ordinal \subseteq target_ordinal THEN lp[p].terms ELSE <<>>)
         \o UpstreamTerms(lp, p + 1, target_ordinal)

\* the list _get_log_factors builds on a cache miss; gen numbers the float
\* object -log_denom made for it
BuildLogFactors(ld, lp, target_ordinal, gen) ==
    LET denom == DenomNotUpstream(ld, DOMAIN ld, target_ordinal)
    IN (IF denom = 0 THEN <<>> ELSE <<DenomTerm(target_ordinal, gen, Fin(-denom))>>)
       \o UpstreamTerms(lp, 1, target_ordinal)

LfKey(ordinal) == [cache |-> "log_factors", shape |-> <<>>, ordinal |-> ordinal]
ProbKey(shape, ordinal) == [cache |-> "prob", shape |-> shape, ordinal |-> ordinal]

\* a Dice object: self.log_denom, self.log_probs, the two caches, and the
\* count of objects made per cache key (an object is named by key and count)
Self == [log_denom |-> log_denom, log_probs |-> log_probs,
         lfc |-> log_factors_cache, pc |-> prob_cache, allocs |-> allocs]

NewObj(self, key) == [key |-> key, gen |-> self.allocs[key] + 1]

\* _get_log_factors without the cache lookup: the list is rebuilt and stored anew
_get_log_factors_NoMemo(self, target_ordinal) ==
    LET obj == NewObj(self, LfKey(target_ordinal))
        log_factors == BuildLogFactors(self.log_denom, self.log_probs,
                                       target_ordinal, obj.gen)
    IN [self |-> [self EXCEPT
                    !.lfc = DictSet(@, target_ordinal,
                                    [obj |-> obj, list |-> log_factors]),
                    !.allocs[LfKey(target_ordinal)] = obj.gen],
        obj  |-> obj,
        list |-> log_factors]

\* _get_log_factors: [self, obj, list]
_get_log_factors(self, target_ordinal) ==
    IF target_ordinal \in DOMAIN self.lfc
    THEN [self |-> self,
          obj  |-> self.lfc[target_ordinal].obj,
          list |-> self.lfc[target_ordinal].list]
    ELSE LET obj == NewObj(self, LfKey(target_ordinal))
             log_factors == BuildLogFactors(self.log_denom, self.log_probs,
                                            target_ordinal, obj.gen)
         IN [self |-> [self EXCEPT
                         !.lfc = DictSet(@, target_ordinal,
                                         [obj |-> obj, list |-> log_factors]),
                         !.allocs[LfKey(target_ordinal)] = obj.gen],
             obj  |-> obj,
             list |-> log_factors]

\* [torch_exp(f) for f in log_factors]
Exps(log_factors) == [k \in 1..Len(log_factors) |-> torch_exp(log_factors[k].val)]

\* pyro.ops.sumproduct.sumproduct for factors that are numbers or tensors
\* without dimensions: their product, which broadcasts to any shape
RECURSIVE sumproduct(_, _)
sumproduct(factors, shape) ==
    IF factors = <<>> THEN RatOne
    ELSE RatMul(Head(factors), sumproduct(Tail(factors), shape))

\* while shape and shape[0] == 1: shape = shape[1:]
RECURSIVE StripShape(_)
StripShape(shape) ==
    IF shape # <<>> /\ shape[1] = 1 THEN StripShape(Tail(shape)) ELSE shape

\* in_context: [self, obj, val]
in_context(self, shape0, ordinal) ==
    LET shape == StripShape(shape0)
        key == <<shape, ordinal>>
    IN IF key \in DOMAIN self.pc
       THEN [self |-> self, obj |-> self.pc[key].obj, val |-> self.pc[key].val]
       ELSE LET r == _get_log_factors(self, ordinal)
                factors == Exps(r.list)
                dice_prob == sumproduct(factors, shape)
                obj == NewObj(r.self, ProbKey(shape, ordinal))
            IN [self |-> [r.self EXCEPT
                            !.pc = DictSet(@, key, [obj |-> obj, val |-> dice_prob]),
                            !.allocs[ProbKey(shape, ordinal)] = obj.gen],
                obj  |-> obj,
                val  |-> dice_prob]

\* mask = prob > 0; the entries where it holds; (prob * cost).sum()
MaskedProduct(prob, cost) ==
    IF ~(prob.n > 0) THEN RatZero
    ELSE RatMul(prob, RatInt(TensorSumAll(cost)))

\* the first loop of compute_expectation (use_einsum): exp_table holds the
\* identities of the log-factors seen, factors_table the factors per ordinal
RECURSIVE EinsumFactorsInner(_, _, _, _)
EinsumFactorsInner(log_factors, k, exp_table, factors) ==
    IF k > Len(log_factors) THEN [exp_table |-> exp_table, factors |-> factors]
    ELSE LET log_factor == log_factors[k]
             ident == [log_factor EXCEPT !.val = Fin(0)]
         IN IF ident \notin exp_table
            THEN EinsumFactorsInner(log_factors, k + 1, exp_table \cup {ident},
                                    Append(factors, torch_exp(log_factor.val)))
            ELSE EinsumFactorsInner(log_factors, k + 1, exp_table, factors)

RECURSIVE EinsumFactors(_, _, _, _, _)
EinsumFactors(self, costs, p, exp_table, factors_table) ==
    IF p > Len(costs)
    THEN [self |-> self, factors_table |-> factors_table]
    ELSE LET ordinal == costs[p].ordinal
             r == _get_log_factors(self, ordinal)
             inner == EinsumFactorsInner(r.list, 1, exp_table, <<>>)
         IN EinsumFactors(r.self, costs, p + 1, inner.exp_table,
                          IF inner.factors = <<>> THEN factors_table
                          ELSE DictSet(factors_table, ordinal, inner.factors))

\* factors_table[ordinal], a defaultdict(list)
FactorsGet(factors_table, ordinal) ==
    IF ordinal \in DOMAIN factors_table THEN factors_table[ordinal] ELSE <<>>

\* for cost in cost_terms: expected_cost = expected_cost + (prob * cost).sum()
RECURSIVE EinsumTerms(_, _, _, _)
EinsumTerms(factors, cost_terms, k, expected_cost) ==
    IF k > Len(cost_terms) THEN expected_cost
    ELSE LET cost == cost_terms[k]
             prob == sumproduct(factors, cost.shape)
         IN EinsumTerms(factors, cost_terms, k + 1,
                        RatAdd(expected_cost, MaskedProduct(prob, cost)))

RECURSIVE EinsumLoop(_, _, _, _)
EinsumLoop(factors_table, costs, p, expected_cost) ==
    IF p > Len(costs) THEN expected_cost
    ELSE EinsumLoop(factors_table, costs, p + 1,
                    EinsumTerms(FactorsGet(factors_table, costs[p].ordinal),
                                costs[p].cost_terms, 1, expected_cost))

\* sum(cost_terms)
RECURSIVE SumTerms(_)
SumTerms(cost_terms) ==
    IF Len(cost_terms) = 1 THEN cost_terms[1]
    ELSE TensorAdd(SumTerms(SubSeq(cost_terms, 1, Len(cost_terms) - 1)),
                   cost_terms[Len(cost_terms)])

RECURSIVE DirectLoop(_, _, _, _)
DirectLoop(self, costs, p, expected_cost) ==
    IF p > Len(costs) THEN [self |-> self, val |-> expected_cost]
    ELSE LET cost == SumTerms(costs[p].cost_terms)
             r == in_context(self, cost.shape, costs[p].ordinal)
         IN DirectLoop(r.self, costs, p + 1,
                       RatAdd(expected_cost, MaskedProduct(r.val, cost)))

\* compute_expectation: [self, val]
compute_expectation(self, costs, use_einsum) ==
    IF use_einsum
    THEN LET t == EinsumFactors(self, costs, 1, {}, <<>>)
         IN [self |-> t.self, val |-> EinsumLoop(t.factors_table, costs, 1, RatZero)]
    ELSE DirectLoop(self, costs, 1, RatZero)

----------------------------------------------------------------------------
(* The Dice specification *)

\* shapes in_context is asked for, and their keys
ContextShapes == {<<>>, <<1>>, <<2>>}
CacheKeys == {LfKey(o) : o \in Ordinals}
               \cup {ProbKey(StripShape(sh), o) : sh \in ContextShapes, o \in Ordinals}

CostScalar == MkTensor(<<>>, 1)
CostVector == MkTensor(<<2>>, 1)
CostRow == MkTensor(<<1, 2>>, 1)

\* the ordinals the evaluation is asked about
EvalOrdinals == {{}, {"a"}, {"a", "b"}}

\* cost tables: dicts from ordinal to a list of cost tensors, in insertion
\* order; one ordinal with terms of two shapes or a term with a leading
\* extent-one axis, or two ordinals with one term each
CostTables ==
    {<<[ordinal |-> o, cost_terms |-> c]>> :
        o \in EvalOrdinals, c \in {<<CostScalar, CostVector>>, <<CostRow>>}}
    \cup {t \in {<<[ordinal |-> o1, cost_terms |-> <<CostScalar>>],
                    [ordinal |-> o2, cost_terms |-> <<CostVector>>]>> :
                     o1 \in EvalOrdinals, o2 \in EvalOrdinals} :
            t[1].ordinal # t[2].ordinal}

NoObj == [key |-> LfKey({}), gen |-> 0]

DRet(op, ordinal, shape, costs, use_einsum, obj, list, val) ==
    [op |-> op, ordinal |-> ordinal, shape |-> shape, costs |-> costs,
     use_einsum |-> use_einsum, obj |-> obj, list |-> list, val |-> val]

DiceIdle ==
    /\ trace = <<>>
    /\ log_denom = <<>>
    /\ log_probs = <<>>
    /\ log_factors_cache = <<>>
    /\ prob_cache = <<>>
    /\ allocs = [k \in CacheKeys |-> 0]
    /\ dret = DRet("init", {}, <<>>, <<>>, FALSE, NoObj, <<>>, RatZero)

MftIdle ==
    /\ store = <<>>
    /\ added = <<>>
    /\ mret = [op |-> "init", target |-> {}, pre |-> <<>>, raised |-> "none", result |-> None]

\* the state after Dice(guide_trace, ordering)
Constructed(guide_trace) ==
    /\ trace = guide_trace
    /\ log_denom = Dice_init(guide_trace).log_denom
    /\ log_probs = Dice_init(guide_trace).log_probs
    /\ log_factors_cache = <<>>
    /\ prob_cache = <<>>
    /\ allocs = [k \in CacheKeys |-> 0]
    /\ dret = DRet("init", {}, <<>>, <<>>, FALSE, NoObj, <<>>, RatZero)
    /\ MftIdle

\* guide traces for the evaluation: reparameterized sites only; one
\* enumerated site upstream of everything; Monte-Carlo and sequentially
\* enumerated sites in nested ordinals; a zero-probability branch next to a
\* sequentially enumerated site in an unrelated ordinal
EvalTraces ==
    { <<Site("param", ZeroScore, "none", 1, {}),
        Site("sample", ZeroScore, "none", 1, {"a"})>>,
      <<Site("sample", Score(Fin(-1)), "parallel", 1, {})>>,
      <<Site("sample", Score(Fin(-1)), "none", 1, {}),
        Site("sample", Score(Fin(-1)), "sequential", 2, {"a"})>>,
      <<Site("sample", Score(NegInf), "parallel", 1, {"a"}),
        Site("sample", Score(Fin(-1)), "sequential", 2, {"b"})>> }

FactorsInit == \E guide_trace \in Traces : Constructed(guide_trace)

DiceInit == \E guide_trace \in EvalTraces : Constructed(guide_trace)

SetSelf(self) ==
    /\ log_factors_cache' = self.lfc
    /\ prob_cache' = self.pc
    /\ allocs' = self.allocs
    /\ UNCHANGED <<trace, log_denom, log_probs>>
    /\ UNCHANGED mftVars

GetLogFactors(ordinal) ==
    LET r == _get_log_factors(Self, ordinal)
    IN /\ SetSelf(r.self)
       /\ dret' = DRet("get_log_factors", ordinal, <<>>, <<>>, FALSE, r.obj, r.list, RatZero)

InContext(shape, ordinal) ==
    LET r == in_context(Self, shape, ordinal)
    IN /\ SetSelf(r.self)
       /\ dret' = DRet("in_context", ordinal, shape, <<>>, FALSE, r.obj, <<>>, r.val)

ComputeExpectation(costs, use_einsum) ==
    LET r == compute_expectation(Self, costs, use_einsum)
    IN /\ SetSelf(r.self)
       /\ dret' = DRet("compute_expectation", {}, <<>>, costs, use_einsum, NoObj, <<>>, r.val)

DiceNext ==
    \/ \E ordinal \in EvalOrdinals : GetLogFactors(ordinal)
    \/ \E shape \in ContextShapes, ordinal \in EvalOrdinals : InContext(shape, ordinal)
    \/ \E costs \in CostTables, use_einsum \in BOOLEAN : ComputeExpectation(costs, use_einsum)

SpecDice == DiceInit /\ [][DiceNext]_vars

FactorsNext == \E ordinal \in Ordinals : GetLogFactors(ordinal)

SpecFactors == FactorsInit /\ [][FactorsNext]_vars

----------------------------------------------------------------------------
(* Properties of Dice *)

\* the sites that reach the two mappings
Remaining(i) == trace[i].type = "sample" /\ ~is_identically_zero(trace[i].score)

SitesAt(ordinal) == {i \in 1..Len(trace) : Remaining(i) /\ trace[i].ordinal = ordinal}

SequentialAt(ordinal) == {i \in SitesAt(ordinal) : trace[i].enumerate = "sequential"}

Bucket(ordinal) ==
    IF BucketPos(log_probs, ordinal) = 0 THEN <<>>
    ELSE log_probs[BucketPos(log_probs, ordinal)].terms

\* C9: sites that are not sample sites or whose score-function term is
\* identically zero reach neither mapping; log_denom[o] is the sum of
\* log(_enum_total) over the sequentially enumerated sites at o; log_probs[o]
\* holds, in trace order, one term per remaining site at o, zero-valued for a
\* Monte-Carlo site and the raw score-function term for an enumerated one
C9_Construction ==
    /\ DOMAIN log_denom = {o \in Ordinals : SequentialAt(o) # {}}
    /\ {log_probs[p].ordinal : p \in 1..Len(log_probs)} = {o \in Ordinals : SitesAt(o) # {}}
    /\ \A o \in Ordinals :
        /\ DenomGet(log_denom, o)
             = SumOver([i \in 1..Len(trace) |-> Log(trace[i].enum_total)], SequentialAt(o))
        /\ Len(Bucket(o)) = Cardinality(SitesAt(o))
        /\ \A k \in 1..Len(Bucket(o)) :
             LET term == Bucket(o)[k]
             IN /\ term.src = "site" /\ term.site \in SitesAt(o)
                /\ k > 1 => Bucket(o)[k - 1].site < term.site
                /\ term.val = IF trace[term.site].enumerate = "none"
                              THEN Fin(0)
                              ELSE trace[term.site].score.val

C9_Witness ==
    /\ DenomGet(log_denom, {"a"}) = 2
    /\ Len(Bucket({"a"})) = 2
    /\ log_factors_cache = <<>>

\* the log-weight terms of the buckets upstream of (or at) the target
TermsUpstream(target_ordinal) ==
    UNION {{Bucket(o)[k] : k \in 1..Len(Bucket(o))} :
             o \in {x \in Ordinals : x \subseteq target_ordinal}}

SeqRange(q) == {q[k] : k \in 1..Len(q)}

\* C2: get_log_factors(T) is one factor, the negated sum of the
\* log-denominators of the buckets not upstream of T, present only if that
\* sum is nonzero, followed by exactly the log-weight terms of the buckets
\* upstream of or at T
C2_LogFactors ==
    /\ dret.op = "get_log_factors" =>
          /\ dret.ordinal \in DOMAIN log_factors_cache
          /\ dret.list = log_factors_cache[dret.ordinal].list
    /\ \A T \in DOMAIN log_factors_cache :
          LET list == log_factors_cache[T].list
              D == SumOver(log_denom, {o \in DOMAIN log_denom : ~(o \subseteq T)})
              rest == IF D # 0 THEN SubSeq(list, 2, Len(list)) ELSE list
          IN /\ D # 0 => /\ Len(list) >= 1
                         /\ list[1].src = "denom"
                         /\ list[1].val = Fin(-D)
             /\ SeqRange(rest) = TermsUpstream(T)
             /\ Len(rest) = Cardinality(TermsUpstream(T))

C2_Witness ==
    /\ dret.op = "get_log_factors"
    /\ Len(dret.list) = 2
    /\ dret.list[1].src = "denom"
    /\ dret.list[2].src = "site"

\* C4: for cached ordinals A, B with A a subset of B, every log-weight
\* term of the list of A is in the list of B
C4_Monotone ==
    \A A \in DOMAIN log_factors_cache, B \in DOMAIN log_factors_cache :
        A \subseteq B =>
            {t \in SeqRange(log_factors_cache[A].list) : t.src = "site"}
                \subseteq SeqRange(log_factors_cache[B].list)

C4_Witness ==
    \E A \in DOMAIN log_factors_cache, B \in DOMAIN log_factors_cache :
        /\ A \subseteq B /\ A # B
        /\ dret.op = "get_log_factors" /\ dret.ordinal = A
        /\ \E t \in SeqRange(log_factors_cache[A].list) : t.src = "site"
        /\ \E t \in SeqRange(log_factors_cache[B].list) :
              t.src = "site" /\ t \notin SeqRange(log_factors_cache[A].list)

\* C5: a call of get_log_factors(o) returns the list object the cache holds
\* for o, which is the one from the first call; realize(shape, o) likewise
\* for (shape without leading extent-one dimensions, o); no call removes or
\* overwrites an entry of either cache
C5_CachesStable ==
    [][ /\ \A o \in DOMAIN log_factors_cache :
             o \in DOMAIN log_factors_cache' /\ log_factors_cache'[o] = log_factors_cache[o]
        /\ \A k \in DOMAIN prob_cache :
             k \in DOMAIN prob_cache' /\ prob_cache'[k] = prob_cache[k]
        /\ dret'.op = "get_log_factors" =>
             /\ dret'.ordinal \in DOMAIN log_factors_cache'
             /\ dret'.obj = log_factors_cache'[dret'.ordinal].obj
        /\ dret'.op = "in_context" =>
             /\ <<StripShape(dret'.shape), dret'.ordinal>> \in DOMAIN prob_cache'
             /\ dret'.obj = prob_cache'[<<StripShape(dret'.shape), dret'.ordinal>>].obj
      ]_vars

C5_Witness ==
    /\ dret.op = "in_context"
    /\ dret.shape = <<1>>
    /\ allocs[ProbKey(<<>>, dret.ordinal)] = 1
    /\ dret.obj = prob_cache[<<<<>>, dret.ordinal>>].obj
    /\ Cardinality(DOMAIN prob_cache) >= 3
    /\ Cardinality(DOMAIN log_factors_cache) >= 2

\* the weight of a cost at an ordinal: the product of the exponentials of
\* the factors of get_log_factors(ordinal), one for the empty list
RECURSIVE ProductOfExps(_)
ProductOfExps(log_factors) ==
    IF log_factors = <<>> THEN RatOne
    ELSE RatMul(torch_exp(Head(log_factors).val), ProductOfExps(Tail(log_factors)))

RECURSIVE PlainSum(_)
PlainSum(cost_terms) ==
    IF cost_terms = <<>> THEN 0
    ELSE TensorSumAll(Head(cost_terms)) + PlainSum(Tail(cost_terms))

RECURSIVE WeightedSum(_)
WeightedSum(costs) ==
    IF costs = <<>> THEN RatZero
    ELSE RatAdd(RatMul(ProductOfExps(log_factors_cache[Head(costs).ordinal].list),
                       RatInt(PlainSum(Head(costs).cost_terms))),
                WeightedSum(Tail(costs)))

RECURSIVE PlainSumTable(_)
PlainSumTable(costs) ==
    IF costs = <<>> THEN 0
    ELSE PlainSum(Head(costs).cost_terms) + PlainSumTable(Tail(costs))

\* C1: compute_expectation with use_einsum returns the scalar the claim
\* gives for both strategies: the sum of the costs, each weighted by the
\* product of the exponentials of the factors of get_log_factors at its
\* ordinal, whatever the order of the ordinals in the cost table
C1_StrategiesAgree ==
    (dret.op = "compute_expectation" /\ dret.use_einsum) =>
        dret.val = WeightedSum(dret.costs)

AllReparameterized ==
    \A i \in 1..Len(trace) : trace[i].type = "sample" => is_identically_zero(trace[i].score)

\* C8: with only reparameterized sample sites every list of log-factors is
\* empty, every realized weight is one, and compute_expectation returns the
\* plain sum of all entries of all cost tensors
C8_Reparameterized ==
    AllReparameterized =>
        /\ \A o \in DOMAIN log_factors_cache : log_factors_cache[o].list = <<>>
        /\ \A k \in DOMAIN prob_cache : prob_cache[k].val = RatOne
        /\ dret.op = "compute_expectation" => dret.val = RatInt(PlainSumTable(dret.costs))

----------------------------------------------------------------------------
(* The MultiFrameTensor specification *)

Items == {<<[stack |-> s, value |-> v]>> : s \in Stacks, v \in TensorPool}

MftInit ==
    /\ MftIdle
    /\ DiceIdle

Add(items) ==
    /\ Len(added) + Len(items) <= MaxAdds
    /\ LET r == add(store, items, <<>>)
       IN /\ store' = r.store
          /\ added' = added \o r.done
          /\ mret' = [op |-> "add", target |-> {}, pre |-> store,
                      raised |-> r.raised, result |-> None]
    /\ UNCHANGED diceVars

SumTo(target_frames) ==
    /\ LET r == sum_to(store, target_frames)
       IN /\ store' = r.store
          /\ mret' = [op |-> "sum_to", target |-> target_frames, pre |-> store,
                      raised |-> r.raised, result |-> r.result]
    /\ UNCHANGED added
    /\ UNCHANGED diceVars

MftNext ==
    \/ \E items \in Items : Add(items)
    \/ \E target_frames \in Stacks : SumTo(target_frames)

SpecMFT == MftInit /\ [][MftNext]_vars

----------------------------------------------------------------------------
(* Properties of MultiFrameTensor *)

\* the axes of a stored value that the frames outside the target address and
\* whose extent exceeds one
ReducedAxes(e, target_frames) ==
    {AxisPos(Rank(e.value), f.dim) :
        f \in {g \in e.frames \ target_frames :
                 /\ -g.dim <= Rank(e.value)
                 /\ e.value.shape[AxisPos(Rank(e.value), g.dim)] > 1}}

\* the value summed over a set of axes at once, each kept with extent one
SumAxes(t, axes) ==
    LET newShape == [p \in 1..Rank(t) |-> IF p \in axes THEN 1 ELSE t.shape[p]]
    IN [shape |-> newShape,
        data  |-> [idx \in Indices(newShape) |->
                     SumOver(t.data,
                             {src \in Indices(t.shape) :
                                \A p \in 1..Rank(t) : p \notin axes => src[p] = idx[p]})]]

ReducedEntry(e, target_frames) ==
    StripLeadingOnes(SumAxes(e.value, ReducedAxes(e, target_frames)))

RECURSIVE SumEntries(_, _)
SumEntries(self, target_frames) ==
    IF Len(self) = 1 THEN ReducedEntry(self[1], target_frames)
    ELSE TensorAdd(SumEntries(SubSeq(self, 1, Len(self) - 1), target_frames),
                   ReducedEntry(self[Len(self)], target_frames))

\* the reduced values can be added up
RECURSIVE Summable(_, _)
Summable(self, target_frames) ==
    \/ Len(self) <= 1
    \/ /\ Summable(SubSeq(self, 1, Len(self) - 1), target_frames)
       /\ Broadcastable(SumEntries(SubSeq(self, 1, Len(self) - 1), target_frames).shape,
                        ReducedEntry(self[Len(self)], target_frames).shape)

\* C3: every stored (key, value) pair has, for each frame f of the key,
\* f.dim < 0 and abs(f.dim) <= rank(value)
C3_KeyFramesAddressDims ==
    \A p \in 1..Len(store) :
        \A f \in store[p].frames : f.dim < 0 /\ -f.dim <= Rank(store[p].value)

\* C10: sum_to leaves the keys and every stored tensor as they were
C10_SumToReadOnly ==
    mret.op = "sum_to" => store = mret.pre

\* C6: sum_to returns None on an empty accumulator; otherwise it returns the
\* sum of the stored values, each reduced along the axes of its key frames
\* outside the target that have extent greater than one, leading extent-one
\* axes stripped, and the axis of each such frame has extent one or is
\* stripped in the reduced value
C6_SumToResult ==
    mret.op = "sum_to" =>
        IF mret.pre = <<>>
        THEN mret.raised = "none" /\ mret.result = None
        ELSE Summable(mret.pre, mret.target) =>
                    /\ mret.raised = "none"
                    /\ mret.result = Some(SumEntries(mret.pre, mret.target))
                    /\ \A p \in 1..Len(mret.pre) :
                         \A f \in mret.pre[p].frames \ mret.target :
                            LET v == ReducedEntry(mret.pre[p], mret.target)
                            IN \/ -f.dim > Rank(v)
                               \/ v.shape[AxisPos(Rank(v), f.dim)] = 1

\* the elementwise sum of the tensors add() accepted
RECURSIVE SumAdded(_)
SumAdded(items) ==
    IF Len(items) = 1 THEN items[1].value
    ELSE TensorAdd(SumAdded(SubSeq(items, 1, Len(items) - 1)), items[Len(items)].value)

\* the last call is sum_to(target) on an accumulator with the single key k,
\* and the vectorized frames of target are k
SingleKeySumTo ==
    /\ mret.op = "sum_to"
    /\ Len(mret.pre) = 1
    /\ {f \in mret.target : f.vectorized} = mret.pre[1].frames

\* C7 as stated: with a single key k, sum_to(k) returns the unreduced
\* elementwise sum of the added tensors
C7_Original ==
    SingleKeySumTo =>
        mret.raised = "none" /\ mret.result = Some(SumAdded(added))

\* C7 as amended: with a single key k, sum_to(k) sums along no axis and returns
\* the elementwise sum of the added tensors with its leading extent-one axes
\* stripped
C7_SumToOwnKey ==
    SingleKeySumTo =>
        mret.raised = "none" /\ mret.result = Some(StripLeadingOnes(SumAdded(added)))

C7_Witness ==
    /\ SingleKeySumTo
    /\ Len(added) = 2
    /\ mret.pre[1].frames = {FrameI, FrameJ}
    /\ mret.result = Some(StripLeadingOnes(SumAdded(added)))
    /\ mret.result.val.shape = <<2, 2>>

====
